---- MODULE Spec2Model ----
(***************************************************************************)
(* Model of the energy monitor (src/src/energy_monitor.py) and of the      *)
(* analysis functions (src/src/energy_analyzer.py).                        *)
(*                                                                         *)
(* Units.  Time is counted in ticks; time.time() returns the tick count.   *)
(* Power is in watts; the sensor reports milliwatts.  An energy is stored  *)
(* in half watt-ticks (twice its value), so that the trapezoid average     *)
(* (a + b) / 2 stays an integer: a name ending in 2 holds such a doubled   *)
(* value.  A quotient is stored as the pair <<numerator, denominator>>.    *)
(* The coefficient of variation, a square root, is stored as its square    *)
(* (it is never negative where the code computes it).                      *)
(***************************************************************************)
EXTENDS Integers, Sequences, FiniteSets, TLC

\* Bounds of the model.
MaxLen == 3
MaxTime == 3

\* Milliwatt readings the sensor may report (bounded input sets): those tried
\* for the polls of a qualification run (a loaded device, on either side of
\* the tier thresholds), and those tried for the polls of a session the
\* caller drives (a device near idle, whose average power lies on either
\* side of 1 W).
SensorMilliwatts == {135000, 160000, 250000}
SessionMilliwatts == {0, 2000}
\* tokens_generated arguments tried.
TokenCounts == {0, 10}
\* Marks an attribute that no method has assigned yet (start_time).
Unset == -1

VARIABLES
    power_samples,      \* self.power_samples
    timestamps,         \* self.timestamps
    monitoring_active,  \* self.monitoring_active
    start_time,         \* self.start_time
    now,                \* the clock time.time() reads
    last                \* the last call made, its arguments and its outcome

vars == <<power_samples, timestamps, monitoring_active, start_time, now, last>>

\* self.sampling_interval: the constructor's default, 25 ms, is one tick.
sampling_interval == 1

----------------------------------------------------------------------------
\* Quotients.

RatLess(a, b) == a[1] * b[2] < b[1] * a[2]
Zero == <<0, 1>>

RatMul(a, b) == <<a[1] * b[1], a[2] * b[2]>>
RatDiv(a, b) == <<a[1] * b[2], a[2] * b[1]>>

\* The sum of the first n elements of s, and of their squares.
RECURSIVE SumTo(_, _)
SumTo(s, n) == IF n = 0 THEN 0 ELSE s[n] + SumTo(s, n - 1)

RECURSIVE SumSqTo(_, _)
SumSqTo(s, n) == IF n = 0 THEN 0 ELSE s[n] * s[n] + SumSqTo(s, n - 1)

\* sum(xs)
SeqSum(xs) == SumTo(xs, Len(xs))

\* max(xs), xs not empty
SeqMax(xs) == CHOOSE m \in {xs[i] : i \in 1..Len(xs)} : \A i \in 1..Len(xs) : xs[i] <= m

\* statistics.mean(xs)
Mean(xs) == <<SeqSum(xs), Len(xs)>>

\* statistics.stdev(xs) squared: the Bessel-corrected sample variance,
\* (sum of squared deviations from the mean) / (n - 1), for n >= 2; as
\* (n * sum of squares - square of the sum) / (n * (n - 1)).
Variance(xs) ==
    LET n == Len(xs)
        S == SeqSum(xs)
    IN  <<n * SumSqTo(xs, n) - S * S, n * (n - 1)>>

\* cv < num / den, for a cv >= 0 stored as its square.
CvLess(cvsq, num, den) == cvsq[1] * den * den < num * num * cvsq[2]

----------------------------------------------------------------------------
\* H200EnergyMonitor

\* A call's record: the method, how it ended ("return" or the exception
\* raised), and its arguments or what it found (noted per method).  What the
\* call returned is a function of this record and of the state the call
\* left: see StopReturned, MetricsReturned and QualificationReturned.
Called(op, outcome, args) == [op |-> op, outcome |-> outcome, args |-> args]

Init ==
    /\ power_samples = <<>>
    /\ timestamps = <<>>
    /\ monitoring_active = FALSE
    /\ start_time = Unset
    /\ now = 0
    /\ last = Called("__init__", "return", 0)

\* The values time.time() may return next.
Clock == now..MaxTime

\* start_monitoring without the reset of the two lists.
start_monitoring_KeepsSamples ==
    \E t \in Clock :
        /\ monitoring_active' = TRUE
        /\ start_time' = t
        /\ now' = t
        /\ last' = Called("start_monitoring", "return",
                           [discarded |-> Len(power_samples)])
        /\ UNCHANGED <<power_samples, timestamps>>

\* start_monitoring: both lists are reset, monitoring is activated and the
\* start time is read.
start_monitoring ==
    \E t \in Clock :
        /\ power_samples' = <<>>
        /\ timestamps' = <<>>
        /\ monitoring_active' = TRUE
        /\ start_time' = t
        /\ now' = t
        /\ last' = Called("start_monitoring", "return",
                           [discarded |-> Len(power_samples)])

\* What one call of pynvml.nvmlDeviceGetPowerUsage may do: report a reading
\* in milliwatts, or raise NVMLError.
Polls(readings) == [ok : {TRUE}, mw : readings] \cup {[ok |-> FALSE, mw |-> 0]}

\* power_w = power_mw / 1000.0 (the readings tried are whole watts)
PowerWatts(power_mw) == power_mw \div 1000

\* Whether sample_power records the poll: it returns at once unless
\* monitoring is active, and a failed read (NVMLError) is caught and only
\* reported.
SampleRecords_IgnoresActive(active, read_ok) == read_ok

\* sample_power without the except clause's skip: a failed read records too.
SampleRecords_IgnoresFailure(active, read_ok) == active

SampleRecords(active, read_ok) == active /\ read_ok

\* sample_power with the timestamp appended before the sensor is read, so
\* that a failed read leaves a timestamp without a sample.
sample_power_StampsFirst ==
    \E poll \in Polls(SessionMilliwatts), t \in Clock :
        /\ last' = Called("sample_power", "return", [read_ok |-> poll.ok])
        /\ IF monitoring_active
           THEN /\ Len(timestamps) < MaxLen
                /\ timestamps' = Append(timestamps, t)
                /\ power_samples' = IF poll.ok
                                    THEN Append(power_samples, PowerWatts(poll.mw))
                                    ELSE power_samples
                /\ now' = t
           ELSE /\ t = now
                /\ UNCHANGED <<power_samples, timestamps, now>>
        /\ UNCHANGED <<monitoring_active, start_time>>

\* sample_power: a recorded reading is appended, then its timestamp.
sample_power ==
    \E poll \in Polls(SessionMilliwatts), t \in Clock :
        /\ last' = Called("sample_power", "return", [read_ok |-> poll.ok])
        /\ IF SampleRecords(monitoring_active, poll.ok)
           THEN /\ Len(power_samples) < MaxLen
                /\ power_samples' = Append(power_samples, PowerWatts(poll.mw))
                /\ timestamps' = Append(timestamps, t)
                /\ now' = t
           ELSE /\ t = now
                /\ UNCHANGED <<power_samples, timestamps, now>>
        /\ UNCHANGED <<monitoring_active, start_time>>

\* stop_monitoring raises ValueError on fewer than 2 samples.
InsufficientSamples_OffByOne(samples) == Len(samples) < 1

InsufficientSamples(samples) == Len(samples) < 2

\* The integration loop of stop_monitoring, from index i on (1-based):
\*   dt = timestamps[i+1] - timestamps[i]
\*   avg_power = (power_samples[i] + power_samples[i+1]) / 2
\*   total_energy_j += avg_power * dt
RECURSIVE StopLoop(_, _, _, _)
StopLoop(samples, times, i, total2) ==
    IF i > Len(samples) - 1 THEN total2
    ELSE StopLoop(samples, times, i + 1,
                  total2 + (samples[i] + samples[i + 1]) * (times[i + 1] - times[i]))

\* The energy stop_monitoring returns (doubled).
StopEnergy2(samples, times) == StopLoop(samples, times, 1, 0)

\* What stop_monitoring assigns before it integrates.  self.end_time = t is
\* read by calculate_metrics alone, right after this assignment and within
\* the same call, so the model passes t on instead of keeping the attribute.
Deactivate(t) ==
    /\ monitoring_active' = FALSE
    /\ now' = t

stop_monitoring ==
    \E t \in Clock :
        /\ Deactivate(t)
        /\ last' = Called("stop_monitoring",
                          IF InsufficientSamples(power_samples)
                          THEN "ValueError" ELSE "return",
                          [was_active |-> monitoring_active])
        /\ UNCHANGED <<power_samples, timestamps, start_time>>

\* __exit__: stop_monitoring only if monitoring is active; its ValueError
\* leaves the with statement.
exit ==
    \E t \in Clock :
        /\ IF monitoring_active
           THEN /\ Deactivate(t)
                /\ last' = Called("__exit__",
                                  IF InsufficientSamples(power_samples)
                                  THEN "ValueError" ELSE "return",
                                  [was_active |-> TRUE])
           ELSE /\ t = now
                /\ last' = Called("__exit__", "return", [was_active |-> FALSE])
                /\ UNCHANGED <<monitoring_active, now>>
        /\ UNCHANGED <<power_samples, timestamps, start_time>>

\* Slice(s, n): the Python slice s[:n], for 0 <= n.
Slice(s, n) == IF n >= Len(s) THEN s ELSE SubSeq(s, 1, n)

\* prefill_energy = sum(prefill_samples) * self.sampling_interval (doubled)
MonitorPrefillEnergy2(samples, prefill_tokens) ==
    2 * SeqSum(Slice(samples, prefill_tokens)) * sampling_interval

\* The decode energy with the subtraction of the prefill energy left out.
MonitorDecodeEnergy2_NoSubtraction(split, total_energy2, prefill2) == total_energy2

\* decode_energy = total_energy_j, and total_energy_j - prefill_energy once
\* the prefill branch is taken (doubled)
MonitorDecodeEnergy2(split, total_energy2, prefill2) ==
    IF split THEN total_energy2 - prefill2 ELSE total_energy2

\* power_stdev = statistics.stdev(samples) if len(samples) > 1 else 0.0 (squared)
PowerStdevSq(samples) == IF Len(samples) > 1 THEN Variance(samples) ELSE Zero

\* power_cv = power_stdev / avg_power if avg_power > 0 else 0.0 (squared)
MonitorPowerCv(stdev_sq, avg_power) ==
    IF RatLess(Zero, avg_power)
    THEN RatDiv(stdev_sq, RatMul(avg_power, avg_power))
    ELSE Zero

\* The statistics of the recorded samples that calculate_metrics reports:
\* avg_power, peak_power and power_cv.
MonitorStatistics(samples) ==
    LET avg_power == Mean(samples)
    IN  [avg_power |-> avg_power,
         peak_power |-> SeqMax(samples),
         power_cv_sq |-> MonitorPowerCv(PowerStdevSq(samples), avg_power)]

\* The EnergyMetrics the monitor's calculate_metrics builds once
\* stop_monitoring has returned total_energy2 and set end_time to t_end; stats
\* is MonitorStatistics(samples).
MonitorMetrics(samples, stats, total_energy2, t_start, t_end, tokens_generated, prefill_tokens) ==
    LET split == prefill_tokens > 0 /\ Len(samples) > prefill_tokens
        prefill2 == IF split THEN MonitorPrefillEnergy2(samples, prefill_tokens) ELSE 0
        jpt == IF tokens_generated > 0
               THEN <<total_energy2, 2 * tokens_generated>> ELSE Zero
    IN  [total_energy2 |-> total_energy2,
         tokens_generated |-> tokens_generated,
         joules_per_token |-> jpt,
         tokens_per_joule |-> IF total_energy2 > 0
                              THEN <<2 * tokens_generated, total_energy2>> ELSE Zero,
         avg_power |-> stats.avg_power,
         peak_power |-> stats.peak_power,
         duration |-> t_end - t_start,
         prefill_energy2 |-> prefill2,
         decode_energy2 |-> MonitorDecodeEnergy2(split, total_energy2, prefill2),
         wh_per_1k_queries |-> <<jpt[1] * 100 * 1000, jpt[2] * 3600>>,
         power_cv_sq |-> stats.power_cv_sq]

\* prefill_tokens arguments tried.
PrefillCounts == 0..MaxLen

\* calculate_metrics: stop_monitoring first (its ValueError propagates), then
\* the metrics of the recorded session.
calculate_metrics ==
    \E t \in Clock, tokens_generated \in TokenCounts, prefill_tokens \in PrefillCounts :
        /\ Deactivate(t)
        /\ last' = Called("calculate_metrics",
                          IF InsufficientSamples(power_samples)
                          THEN "ValueError" ELSE "return",
                          [tokens_generated |-> tokens_generated,
                           prefill_tokens |-> prefill_tokens])
        /\ UNCHANGED <<power_samples, timestamps, start_time>>

\* The cascade with the tier 2 test made first.
DetermineTier_Tier2First(power_cv_sq, avg_power) ==
    IF CvLess(power_cv_sq, 3, 20) /\ RatLess(avg_power, <<200, 1>>)
    THEN [tier |-> "tier_2_standard", discount |-> 10, qualified |-> TRUE,
          reasoning |-> "Good power stability"]
    ELSE IF CvLess(power_cv_sq, 1, 10) /\ RatLess(avg_power, <<150, 1>>)
    THEN [tier |-> "tier_1_efficient", discount |-> 20, qualified |-> TRUE,
          reasoning |-> "Excellent power stability"]
    ELSE [tier |-> "tier_3_high_variance", discount |-> 0, qualified |-> FALSE,
          reasoning |-> "High power variance"]

\* The tier cascade of qualify_for_discount: the thresholds 0.10 and 0.15
\* are 1/10 and 3/20.
DetermineTier(power_cv_sq, avg_power) ==
    IF CvLess(power_cv_sq, 1, 10) /\ RatLess(avg_power, <<150, 1>>)
    THEN [tier |-> "tier_1_efficient", discount |-> 20, qualified |-> TRUE,
          reasoning |-> "Excellent power stability"]
    ELSE IF CvLess(power_cv_sq, 3, 20) /\ RatLess(avg_power, <<200, 1>>)
    THEN [tier |-> "tier_2_standard", discount |-> 10, qualified |-> TRUE,
          reasoning |-> "Good power stability"]
    ELSE [tier |-> "tier_3_high_variance", discount |-> 0, qualified |-> FALSE,
          reasoning |-> "High power variance"]

\* A result that leaves the reasoning out.
Qualification_NoReasoning(samples) ==
    LET stats == MonitorStatistics(samples)
        t == DetermineTier(stats.power_cv_sq, stats.avg_power)
    IN  [tier |-> t.tier,
         discount_percentage |-> t.discount,
         power_cv_sq |-> stats.power_cv_sq,
         avg_power |-> stats.avg_power,
         peak_power |-> stats.peak_power,
         qualified |-> t.qualified]

\* The QualificationResult built from the samples of the qualification run.
\* reasoning is the sentence chosen and the two values it embeds.
Qualification(samples) ==
    LET stats == MonitorStatistics(samples)
        power_cv_sq == stats.power_cv_sq
        avg_power == stats.avg_power
        t == DetermineTier(power_cv_sq, avg_power)
    IN  [tier |-> t.tier,
         discount_percentage |-> t.discount,
         power_cv_sq |-> power_cv_sq,
         avg_power |-> avg_power,
         peak_power |-> stats.peak_power,
         qualified |-> t.qualified,
         reasoning |-> <<t.reasoning, power_cv_sq, avg_power>>]

\* The samples and the timestamps the loop of qualify_for_discount records in
\* its first n rounds: round i polls at t0 + (i - 1) * sampling_interval (the
\* loop sleeps sampling_interval after each poll), and a failed poll records
\* nothing.
RECURSIVE PolledSamples(_, _)
PolledSamples(polls, n) ==
    IF n = 0 THEN <<>>
    ELSE IF SampleRecords(TRUE, polls[n].ok)
         THEN Append(PolledSamples(polls, n - 1), PowerWatts(polls[n].mw))
         ELSE PolledSamples(polls, n - 1)

RECURSIVE PolledTimes(_, _, _)
PolledTimes(polls, n, t0) ==
    IF n = 0 THEN <<>>
    ELSE IF SampleRecords(TRUE, polls[n].ok)
         THEN Append(PolledTimes(polls, n - 1, t0), t0 + (n - 1) * sampling_interval)
         ELSE PolledTimes(polls, n - 1, t0)

\* qualify_for_discount(num_samples): start_monitoring, num_samples rounds of
\* sample_power and sleep, stop_monitoring (its ValueError propagates), then
\* the tier.
qualify_for_discount ==
    \E num_samples \in 0..MaxLen, t0 \in Clock :
        \E polls \in [1..num_samples -> Polls(SensorMilliwatts)] :
            /\ t0 + num_samples * sampling_interval <= MaxTime
            /\ power_samples' = PolledSamples(polls, num_samples)
            /\ timestamps' = PolledTimes(polls, num_samples, t0)
            /\ monitoring_active' = FALSE
            /\ start_time' = t0
            /\ now' = t0 + num_samples * sampling_interval
            /\ last' = Called("qualify_for_discount",
                              IF InsufficientSamples(power_samples')
                              THEN "ValueError" ELSE "return",
                              [num_samples |-> num_samples])

\* What the last call returned, when it was stop_monitoring and returned:
\* the call left the samples as they were.
StopReturned == StopEnergy2(power_samples, timestamps)

\* What the last call returned, when it was calculate_metrics and returned:
\* the call left the samples and start_time as they were, and the end_time
\* it assigned is the clock's present reading.
MetricsReturned ==
    MonitorMetrics(power_samples, MonitorStatistics(power_samples),
                   StopEnergy2(power_samples, timestamps), start_time, now,
                   last.args.tokens_generated, last.args.prefill_tokens)

\* What the last call returned, when it was qualify_for_discount and
\* returned: the samples of its run are those it left in the monitor.
QualificationReturned == Qualification(power_samples)

----------------------------------------------------------------------------
\* energy_analyzer

\* Arguments tried: power readings (one negative, one zero), timestamps in
\* ascending order (equal ones and unequal gaps among them), the two
\* sequences of any lengths up to MaxLen.
AnalyzerPowers == {-50, 0, 2}
AnalyzerTimes == {0, 1, 3}
SeqsUpTo(S, n) == UNION {[1..k -> S] : k \in 0..n}
PowerSeqs == SeqsUpTo(AnalyzerPowers, MaxLen)
TimeSeqs == {t \in SeqsUpTo(AnalyzerTimes, MaxLen) :
                \A i \in 1..(Len(t) - 1) : t[i] <= t[i + 1]}
SplitCounts == (-1)..(MaxLen + 1)

\* tokens_per_query: the parameter's default.
TokensPerQuery == 100

\* The loop with the configured interval in place of the elapsed time.
RECURSIVE EnergyLoop_FixedInterval(_, _, _, _)
EnergyLoop_FixedInterval(samples, times, i, total2) ==
    IF i > Len(samples) - 1 THEN total2
    ELSE EnergyLoop_FixedInterval(samples, times, i + 1,
                    total2 + (samples[i] + samples[i + 1]) * sampling_interval)

\* The loop of calculate_energy, from index i on (1-based):
\*   dt = timestamps[i+1] - timestamps[i]
\*   avg_power = (power_samples[i] + power_samples[i+1]) / 2
\*   total_energy_j += avg_power * dt
RECURSIVE EnergyLoop(_, _, _, _)
EnergyLoop(samples, times, i, total2) ==
    IF i > Len(samples) - 1 THEN total2
    ELSE EnergyLoop(samples, times, i + 1,
                    total2 + (samples[i] + samples[i + 1]) * (times[i + 1] - times[i]))

\* The loop reads timestamps[i+1] for every i + 1 < len(power_samples): a
\* shorter timestamps list raises IndexError.
EnergyIndexError(samples, times) == Len(samples) >= 2 /\ Len(times) < Len(samples)

\* calculate_energy (doubled): 0.0 on fewer than 2 samples.
CalculateEnergy2(samples, times) ==
    IF Len(samples) < 2 THEN 0 ELSE EnergyLoop(samples, times, 1, 0)

\* How calculate_energy(samples, times) ends.
EnergyOutcome(samples, times) ==
    IF EnergyIndexError(samples, times) THEN "IndexError" ELSE "return"

\* calculate_metrics without its check of the sample count.
MetricsOutcome_NoCheck(samples, times) == EnergyOutcome(samples, times)

\* How calculate_metrics(samples, times, ...) ends: ValueError on fewer than
\* 2 samples, else as calculate_energy does (what follows it cannot raise
\* once calculate_energy has returned).
MetricsOutcome(samples, times) ==
    IF Len(samples) < 2 THEN "ValueError" ELSE EnergyOutcome(samples, times)

\* power_cv = (power_stdev / avg_power) if avg_power > 1.0 else 0.0 (squared)
AnalyzerPowerCv(stdev_sq, avg_power) ==
    IF RatLess(<<1, 1>>, avg_power)
    THEN RatDiv(stdev_sq, RatMul(avg_power, avg_power))
    ELSE Zero

\* tokens_per_joule without its guard.
TokensPerJoule_NoGuard(tokens_generated, total_energy2) ==
    <<2 * tokens_generated, total_energy2>>

\* tokens_per_joule = tokens_generated / total_energy_j if total_energy_j > 0
\* else 0.0
TokensPerJoule(tokens_generated, total_energy2) ==
    IF total_energy2 > 0 THEN <<2 * tokens_generated, total_energy2>> ELSE Zero

\* The phase attribution of calculate_metrics.
PhaseSplit(samples, prefill_sample_count) ==
    prefill_sample_count > 0 /\ prefill_sample_count < Len(samples)

\* prefill_energy = calculate_energy(prefill_samples, prefill_times) (doubled)
PrefillEnergy2(samples, times, prefill_sample_count) ==
    IF PhaseSplit(samples, prefill_sample_count)
    THEN CalculateEnergy2(Slice(samples, prefill_sample_count),
                          Slice(times, prefill_sample_count))
    ELSE 0

\* The prefill duration taken up to the first decode sample.
PrefillDuration_OffByOne(samples, times, prefill_sample_count) ==
    IF PhaseSplit(samples, prefill_sample_count)
    THEN times[prefill_sample_count + 1] - times[1]
    ELSE 0

\* prefill_duration = timestamps[prefill_sample_count-1] - timestamps[0]
PrefillDuration(samples, times, prefill_sample_count) ==
    IF PhaseSplit(samples, prefill_sample_count)
    THEN times[prefill_sample_count] - times[1]
    ELSE 0

\* The EnergyMetrics calculate_metrics returns.
AnalyzerMetrics(samples, times, tokens_generated, prefill_sample_count, tokens_per_query) ==
    LET total_energy2 == CalculateEnergy2(samples, times)
        duration == times[Len(times)] - times[1]
        avg_power == Mean(samples)
        jpt == IF tokens_generated > 0
               THEN <<total_energy2, 2 * tokens_generated>> ELSE Zero
        prefill2 == PrefillEnergy2(samples, times, prefill_sample_count)
        prefill_duration == PrefillDuration(samples, times, prefill_sample_count)
    IN  [total_energy2 |-> total_energy2,
         tokens_generated |-> tokens_generated,
         joules_per_token |-> jpt,
         tokens_per_joule |-> TokensPerJoule(tokens_generated, total_energy2),
         avg_power |-> avg_power,
         peak_power |-> SeqMax(samples),
         duration |-> duration,
         prefill_energy2 |-> prefill2,
         prefill_duration |-> prefill_duration,
         decode_energy2 |-> total_energy2 - prefill2,
         decode_duration |-> duration - prefill_duration,
         wh_per_1k_queries |-> <<jpt[1] * tokens_per_query * 1000, jpt[2] * 3600>>,
         power_cv_sq |-> AnalyzerPowerCv(PowerStdevSq(samples), avg_power)]

\* One call of calculate_energy on drawn arguments.
analyzer_calculate_energy ==
    \E samples \in PowerSeqs, times \in TimeSeqs :
        /\ last' = Called("energy_analyzer.calculate_energy",
                          EnergyOutcome(samples, times),
                          [power_samples |-> samples, timestamps |-> times])
        /\ UNCHANGED <<power_samples, timestamps, monitoring_active, start_time, now>>

\* One call of calculate_metrics on drawn arguments.
analyzer_calculate_metrics ==
    \E samples \in PowerSeqs, times \in TimeSeqs,
       tokens_generated \in TokenCounts, prefill_sample_count \in SplitCounts :
        /\ last' = Called("energy_analyzer.calculate_metrics",
                          MetricsOutcome(samples, times),
                          [power_samples |-> samples, timestamps |-> times,
                           tokens_generated |-> tokens_generated,
                           prefill_sample_count |-> prefill_sample_count])
        /\ UNCHANGED <<power_samples, timestamps, monitoring_active, start_time, now>>

\* What the last call returned, when it was the analyzer's calculate_energy
\* and returned.
AnalyzerEnergyReturned ==
    CalculateEnergy2(last.args.power_samples, last.args.timestamps)

\* What the last call returned, when it was the analyzer's calculate_metrics
\* and returned.
AnalyzerMetricsReturned ==
    AnalyzerMetrics(last.args.power_samples, last.args.timestamps,
                    last.args.tokens_generated, last.args.prefill_sample_count,
                    TokensPerQuery)

----------------------------------------------------------------------------
\* The analysis functions are pure: they read and write nothing of a monitor.
\* A behaviour is either a run of calls on one monitor, or a single call of
\* an analysis function on drawn arguments.
AnalyzerOps == {"energy_analyzer.calculate_energy", "energy_analyzer.calculate_metrics"}

OnMonitor == last.op \notin AnalyzerOps
Standalone == last.op = "__init__"

Next ==
    \/ OnMonitor /\ start_monitoring
    \/ OnMonitor /\ sample_power
    \/ OnMonitor /\ stop_monitoring
    \/ OnMonitor /\ calculate_metrics
    \/ OnMonitor /\ qualify_for_discount
    \/ OnMonitor /\ exit
    \/ Standalone /\ analyzer_calculate_energy
    \/ Standalone /\ analyzer_calculate_metrics

Spec == Init /\ [][Next]_vars

----------------------------------------------------------------------------
\* Properties

\* The trapezoidal rule, written out: the sum, over the adjacent pairs
\* (i, i + 1) with a <= i < b, of (p[i] + p[i+1]) / 2 * (t[i+1] - t[i]),
\* doubled.
RECURSIVE Trapezoid2(_, _, _, _)
Trapezoid2(p, t, a, b) ==
    IF b <= a THEN 0
    ELSE Trapezoid2(p, t, a, b - 1) + (p[b - 1] + p[b]) * (t[b] - t[b - 1])

\* C1: sample_power called while the session is not active (before the first
\* start_monitoring, or after stop_monitoring) leaves power_samples and
\* timestamps as they were.
C1_InactiveSampleKeepsBuffer ==
    [][(last'.op = "sample_power" /\ ~monitoring_active)
          => (power_samples' = power_samples /\ timestamps' = timestamps)]_vars

\* C1 witness: sample_power was called, with a reading available, on a
\* stopped session that holds samples.
C1_Witness ==
    /\ last.op = "sample_power"
    /\ last.args.read_ok
    /\ ~monitoring_active
    /\ Len(power_samples) >= 2

\* C2: qualify_for_discount leaves the recorded samples, the timestamps and
\* the active flag of the caller's session as they were.  Stated for the
\* states in which the caller's session is active and has recorded samples
\* (the claim covers every state).
C2_QualifyKeepsSession ==
    [][(/\ last'.op = "qualify_for_discount"
        /\ monitoring_active
        /\ Len(power_samples) >= 2)
          => /\ power_samples' = power_samples
             /\ timestamps' = timestamps
             /\ monitoring_active' = monitoring_active]_vars

\* The tier-1 and tier-2 bounds on a result's (CV, avg_power).
Tier1Bounds(r) == CvLess(r.power_cv_sq, 1, 10) /\ RatLess(r.avg_power, <<150, 1>>)
Tier2Bounds(r) == CvLess(r.power_cv_sq, 3, 20) /\ RatLess(r.avg_power, <<200, 1>>)

\* C3: the result of a qualification is Tier 1, 20%, qualified exactly when
\* CV < 0.10 and avg_power < 150; otherwise Tier 2, 10%, qualified exactly
\* when CV < 0.15 and avg_power < 200; otherwise Tier 3, 0%, not qualified.
C3_TierCascade ==
    (last.op = "qualify_for_discount" /\ last.outcome = "return") =>
        LET r == QualificationReturned
            verdict == <<r.tier, r.discount_percentage, r.qualified>>
        IN  /\ Tier1Bounds(r) => verdict = <<"tier_1_efficient", 20, TRUE>>
            /\ (~Tier1Bounds(r) /\ Tier2Bounds(r))
                  => verdict = <<"tier_2_standard", 10, TRUE>>
            /\ (~Tier1Bounds(r) /\ ~Tier2Bounds(r))
                  => verdict = <<"tier_3_high_variance", 0, FALSE>>
            /\ (CvLess(r.power_cv_sq, 1, 10) /\ ~RatLess(r.avg_power, <<200, 1>>))
                  => r.tier = "tier_3_high_variance"

\* C3 witness: a qualification whose measurement meets the tier-1 bounds, and
\* with them the tier-2 bounds, and came out Tier 1.
C3_Witness ==
    /\ last.op = "qualify_for_discount"
    /\ last.outcome = "return"
    /\ Tier1Bounds(QualificationReturned)
    /\ Tier2Bounds(QualificationReturned)
    /\ QualificationReturned.tier = "tier_1_efficient"

\* C4 as claimed: stop_monitoring deactivates the session and returns
\* normally, whatever number of samples is recorded.
C4_StopAlwaysReturns ==
    last.op = "stop_monitoring" => (~monitoring_active /\ last.outcome = "return")

\* C4 amended: stop_monitoring (also when __exit__ calls it, on an active
\* session) deactivates the session in every state; it returns normally
\* exactly when at least 2 samples are recorded and raises ValueError
\* otherwise.
C4_StopDeactivates ==
    (last.op = "stop_monitoring" \/ (last.op = "__exit__" /\ last.args.was_active)) =>
        /\ ~monitoring_active
        /\ last.outcome = "return" <=> Len(power_samples) >= 2
        /\ last.outcome = "ValueError" <=> Len(power_samples) < 2

\* C4 witness: stop_monitoring returned on an active session of 2 or more
\* samples and left it inactive.
C4_Witness ==
    /\ last.op = "stop_monitoring"
    /\ last.outcome = "return"
    /\ last.args.was_active
    /\ ~monitoring_active
    /\ Len(power_samples) >= 2

\* C5: after start_monitoring, from any prior state, power_samples and
\* timestamps are empty and the session is active.
C5_StartResets ==
    last.op = "start_monitoring" =>
        (power_samples = <<>> /\ timestamps = <<>> /\ monitoring_active)

\* C5 witness: start_monitoring was called on a monitor that held samples of
\* a previous session.
C5_Witness ==
    /\ last.op = "start_monitoring"
    /\ last.args.discarded >= 2
    /\ power_samples = <<>>

\* C6: metrics requested on fewer than 2 samples raise ValueError, in the
\* monitor's calculate_metrics and in the analyzer's.
C6_FewSamplesRaise ==
    /\ (last.op = "calculate_metrics" /\ Len(power_samples) < 2)
          => last.outcome = "ValueError"
    /\ (last.op = "energy_analyzer.calculate_metrics"
          /\ Len(last.args.power_samples) < 2)
          => last.outcome = "ValueError"

\* C6 witness: the monitor's calculate_metrics raised on a session that had
\* been started and had recorded one sample.
C6_Witness ==
    /\ last.op = "calculate_metrics"
    /\ last.outcome = "ValueError"
    /\ Len(power_samples) = 1

\* C7: the analyzer's calculate_metrics returns only when the two lists have
\* the same length, at least 2, and raises its insufficient-samples error
\* (ValueError) on every other input.
C7_LengthsChecked ==
    last.op = "energy_analyzer.calculate_metrics" =>
        LET p == last.args.power_samples
            t == last.args.timestamps
        IN  IF Len(p) = Len(t) /\ Len(p) >= 2
            THEN last.outcome = "return"
            ELSE last.outcome = "ValueError"

\* C8: both integrators return the trapezoidal sum over the timestamps given:
\* the analyzer's calculate_energy on any 2 or more samples, stop_monitoring
\* on the recorded session, on which the two agree.
C8_Trapezoid ==
    /\ (last.op = "energy_analyzer.calculate_energy" /\ last.outcome = "return"
          /\ Len(last.args.power_samples) >= 2)
          => AnalyzerEnergyReturned =
                Trapezoid2(last.args.power_samples, last.args.timestamps,
                           1, Len(last.args.power_samples))
    /\ (last.op = "stop_monitoring" /\ last.outcome = "return")
          => /\ StopReturned =
                   Trapezoid2(power_samples, timestamps, 1, Len(power_samples))
             /\ StopReturned = CalculateEnergy2(power_samples, timestamps)

\* C8 witness: calculate_energy returned on three samples, one negative,
\* whose first two share a timestamp and whose gaps differ.
C8_Witness ==
    /\ last.op = "energy_analyzer.calculate_energy"
    /\ last.outcome = "return"
    /\ last.args.power_samples = <<2, -50, 2>>
    /\ last.args.timestamps = <<0, 0, 3>>
    /\ AnalyzerEnergyReturned = -144

\* C9: for a session with a gap between samples that differs from
\* sampling_interval, the prefill energy the monitor's calculate_metrics
\* reports is the trapezoidal sum over the prefill samples' timestamps.
C9_PrefillFromTimestamps ==
    (/\ last.op = "calculate_metrics"
     /\ last.outcome = "return"
     /\ \E i \in 1..(Len(timestamps) - 1) :
            timestamps[i + 1] - timestamps[i] # sampling_interval) =>
        LET N == last.args.prefill_tokens
        IN  MetricsReturned.prefill_energy2 =
               IF N > 0 /\ N < Len(power_samples)
               THEN Trapezoid2(power_samples, timestamps, 1, N)
               ELSE 0

\* C10: the analyzer's phase attribution.  With 0 < N < len(samples), prefill
\* is the trapezoidal sum over samples 1..N and lasts from the first to the
\* N-th timestamp, decode is the sum over the intervals from sample N to the
\* last and lasts the rest; otherwise prefill is 0 and decode is everything.
C10_PhaseAttribution ==
    (last.op = "energy_analyzer.calculate_metrics" /\ last.outcome = "return") =>
        LET p == last.args.power_samples
            t == last.args.timestamps
            N == last.args.prefill_sample_count
            m == AnalyzerMetricsReturned
        IN  IF 0 < N /\ N < Len(p)
            THEN /\ m.prefill_energy2 = Trapezoid2(p, t, 1, N)
                 /\ m.prefill_duration = t[N] - t[1]
                 /\ m.decode_energy2 = Trapezoid2(p, t, N, Len(p))
                 /\ m.decode_duration = t[Len(t)] - t[N]
            ELSE /\ m.prefill_energy2 = 0
                 /\ m.prefill_duration = 0
                 /\ m.decode_energy2 = m.total_energy2
                 /\ m.decode_duration = m.duration

\* C10 witness: a split at N = 2 of three samples, with energy in both phases.
C10_Witness ==
    /\ last.op = "energy_analyzer.calculate_metrics"
    /\ last.outcome = "return"
    /\ Len(last.args.power_samples) = 3
    /\ Len(last.args.timestamps) = 3
    /\ last.args.prefill_sample_count = 2
    /\ AnalyzerMetricsReturned.prefill_energy2 > 0
    /\ AnalyzerMetricsReturned.decode_energy2 > 0

\* C11: in every metrics result of a session of 2 or more samples, whatever
\* the split count and the token count, prefill_energy + decode_energy is
\* total_energy (the monitor's result and the analyzer's), and
\* decode_duration is duration - prefill_duration (the analyzer's result: the
\* monitor's EnergyMetrics has no duration split).
C11_AdditiveSplit ==
    /\ (last.op = "calculate_metrics" /\ last.outcome = "return") =>
          LET m == MetricsReturned
          IN  m.prefill_energy2 + m.decode_energy2 = m.total_energy2
    /\ (last.op = "energy_analyzer.calculate_metrics" /\ last.outcome = "return") =>
          LET m == AnalyzerMetricsReturned
          IN  /\ m.prefill_energy2 + m.decode_energy2 = m.total_energy2
              /\ m.decode_duration = m.duration - m.prefill_duration

\* C11 witness: the monitor's calculate_metrics returned with the prefill
\* branch taken and energy attributed to prefill.
C11_Witness ==
    /\ last.op = "calculate_metrics"
    /\ last.outcome = "return"
    /\ last.args.prefill_tokens > 0
    /\ last.args.prefill_tokens < Len(power_samples)
    /\ MetricsReturned.prefill_energy2 > 0
    /\ MetricsReturned.decode_energy2 # MetricsReturned.total_energy2

\* C12: a failed sensor read during sample_power in an active session raises
\* nothing, leaves the session active and the recorded samples and
\* timestamps as they were; a successful poll that follows a failed one is
\* appended, with its timestamp.
C12_FailedPollSkipped ==
    [][/\ (last'.op = "sample_power" /\ monitoring_active /\ ~last'.args.read_ok)
          => /\ last'.outcome = "return"
             /\ monitoring_active'
             /\ power_samples' = power_samples
             /\ timestamps' = timestamps
       /\ (/\ last.op = "sample_power" /\ ~last.args.read_ok /\ monitoring_active
           /\ last'.op = "sample_power" /\ last'.args.read_ok)
          => /\ Len(power_samples') = Len(power_samples) + 1
             /\ SubSeq(power_samples', 1, Len(power_samples)) = power_samples
             /\ Len(timestamps') = Len(timestamps) + 1
             /\ SubSeq(timestamps', 1, Len(timestamps)) = timestamps]_vars

\* C12 witness: a poll failed in an active session that had recorded a
\* sample, and the session is still active.
C12_Witness ==
    /\ last.op = "sample_power"
    /\ last.outcome = "return"
    /\ ~last.args.read_ok
    /\ monitoring_active
    /\ Len(power_samples) >= 1
    /\ Len(power_samples) < MaxLen

\* The fields of a QualificationResult.
QualificationFields ==
    {"tier", "discount_percentage", "power_cv_sq", "avg_power", "peak_power",
     "qualified", "reasoning"}

\* C13: whatever num_samples and whichever polls fail, qualify_for_discount
\* ends in one of two ways: it returns a QualificationResult with every
\* field set, or the error of the sampling run underneath (the ValueError of
\* stop_monitoring, raised when fewer than 2 polls were recorded) reaches the
\* caller.
C13_QualificationAllOrNothing ==
    last.op = "qualify_for_discount" =>
        \/ /\ last.outcome = "return"
           /\ ~InsufficientSamples(power_samples)
           /\ DOMAIN QualificationReturned = QualificationFields
           /\ QualificationReturned.tier \in
                 {"tier_1_efficient", "tier_2_standard", "tier_3_high_variance"}
           /\ QualificationReturned.discount_percentage \in {0, 10, 20}
           /\ QualificationReturned.qualified \in BOOLEAN
           /\ QualificationReturned.peak_power \in
                 {power_samples[i] : i \in 1..Len(power_samples)}
           /\ QualificationReturned.avg_power = Mean(power_samples)
           /\ QualificationReturned.reasoning[2] = QualificationReturned.power_cv_sq
           /\ QualificationReturned.reasoning[3] = QualificationReturned.avg_power
        \/ /\ last.outcome = "ValueError"
           /\ InsufficientSamples(power_samples)

\* C13 witness: a qualification of 3 polls of which one failed returned a
\* result.
C13_Witness ==
    /\ last.op = "qualify_for_discount"
    /\ last.outcome = "return"
    /\ last.args.num_samples = 3
    /\ Len(power_samples) = 2
    /\ DOMAIN QualificationReturned = QualificationFields

\* The CV as claimed: stdev / avg_power when avg_power > 1.0, else 0.0
\* (squared).
ClaimedCv(samples) ==
    IF RatLess(<<1, 1>>, Mean(samples))
    THEN RatDiv(Variance(samples), RatMul(Mean(samples), Mean(samples)))
    ELSE Zero

\* C14: the CV is stdev(power) / avg_power when avg_power > 1.0 and exactly
\* 0.0 when avg_power <= 1.0, in the analyzer's metrics, in the monitor's
\* metrics and in the qualification measurement.
C14_CvGuardAtOneWatt ==
    /\ (last.op = "energy_analyzer.calculate_metrics" /\ last.outcome = "return")
          => AnalyzerMetricsReturned.power_cv_sq = ClaimedCv(last.args.power_samples)
    /\ (last.op = "calculate_metrics" /\ last.outcome = "return")
          => MetricsReturned.power_cv_sq = ClaimedCv(power_samples)
    /\ (last.op = "qualify_for_discount" /\ last.outcome = "return")
          => QualificationReturned.power_cv_sq = ClaimedCv(power_samples)

\* C15: the duration of a metrics result is timestamps[-1] - timestamps[0],
\* in the analyzer's calculate_metrics and in the monitor's.
C15_DurationIsSampleSpan ==
    /\ (last.op = "energy_analyzer.calculate_metrics" /\ last.outcome = "return")
          => AnalyzerMetricsReturned.duration =
                last.args.timestamps[Len(last.args.timestamps)] - last.args.timestamps[1]
    /\ (last.op = "calculate_metrics" /\ last.outcome = "return")
          => MetricsReturned.duration = timestamps[Len(timestamps)] - timestamps[1]

\* A quotient that is 0.0.
IsZero(q) == q[1] = 0 /\ q[2] # 0

\* The degenerate outputs of C16 in a metrics result m.
DegenerateOutputs(m) ==
    /\ m.tokens_generated = 0
          => /\ IsZero(m.joules_per_token)
             /\ IsZero(m.tokens_per_joule)
             /\ IsZero(m.wh_per_1k_queries)
    /\ m.total_energy2 <= 0 => IsZero(m.tokens_per_joule)

\* C16: on 2 or more samples (with as many timestamps), calculate_metrics
\* raises nothing; tokens_generated = 0 gives joules_per_token,
\* tokens_per_joule and wh_per_1k_queries equal to 0.0, and total_energy <= 0
\* gives tokens_per_joule equal to 0.0: in the analyzer and in the monitor.
C16_DegenerateOutputs ==
    /\ (/\ last.op = "energy_analyzer.calculate_metrics"
        /\ Len(last.args.power_samples) >= 2
        /\ Len(last.args.timestamps) = Len(last.args.power_samples))
          => /\ last.outcome = "return"
             /\ DegenerateOutputs(AnalyzerMetricsReturned)
    /\ (last.op = "calculate_metrics" /\ Len(power_samples) >= 2)
          => /\ last.outcome = "return"
             /\ DegenerateOutputs(MetricsReturned)

\* C16 witness: the analyzer's calculate_metrics returned for a positive
\* token count on samples whose total energy is negative.
C16_Witness ==
    /\ last.op = "energy_analyzer.calculate_metrics"
    /\ last.outcome = "return"
    /\ last.args.tokens_generated > 0
    /\ AnalyzerMetricsReturned.total_energy2 < 0
    /\ IsZero(AnalyzerMetricsReturned.tokens_per_joule)

\* C17: in every state of a monitor, power_samples and timestamps have the
\* same length.
C17_OneTimestampPerSample ==
    OnMonitor => Len(power_samples) = Len(timestamps)

\* C17 witness: a session in which a poll was recorded after a failed one.
C17_Witness ==
    /\ last.op = "sample_power"
    /\ last.args.read_ok
    /\ monitoring_active
    /\ Len(power_samples) = 2
    /\ timestamps[2] > timestamps[1] + sampling_interval

====
